---- MODULE Spec2Model ----
(***************************************************************************)
(* Model of the DrowsyDriver backend (src/backend/app.py, config.py).      *)
(*                                                                         *)
(* The handlers are coroutines on one event loop.  A handler runs without  *)
(* interruption except at an `await`; process_frame has exactly one, the   *)
(* `await file.read()` right after `state.frame_count += 1`, so a frame    *)
(* tick is two steps (TickBegin, TickFinish) and every other handler is    *)
(* one step.  The requests suspended there carry no data the rest of the   *)
(* handler uses before the read returns, so they are counted, not named.   *)
(*                                                                         *)
(* Real numbers (EAR, threshold, JSON numbers) are integers in units of    *)
(* 1/10000, so round(ear, 4) is exact on every value of the model.         *)
(* drowsy_percentage is in units of 1/100 of a percent.                    *)
(***************************************************************************)
EXTENDS Integers, Sequences, FiniteSets, TLC

\* ---- bounds ----
MaxReq == 2         \* concurrent process_frame requests
MaxFrames == 5      \* cap on frame_count (guard of TickBegin)

\* ---- program constants ----
DefaultEarThreshold == 2500     \* config.py: EAR_THRESHOLD = 0.25
DefaultConsecutiveFrames == 20  \* config.py: CONSECUTIVE_FRAMES = 20
DefaultWindowSize == 10         \* config.py: WINDOW_SIZE = 10
Unit == 10000                   \* 1.0 in the model's fixed-point unit

VARIABLES
  closed_eye_counter,   \* state.closed_eye_counter
  alert_triggered,      \* state.alert_triggered
  frame_count,          \* state.frame_count
  drowsy_frames,        \* state.drowsy_frames
  EAR_THRESHOLD,        \* settings.EAR_THRESHOLD   (1/10000)
  CONSECUTIVE_FRAMES,   \* settings.CONSECUTIVE_FRAMES
  WINDOW_SIZE,          \* settings.WINDOW_SIZE
  reading,              \* process_frame calls suspended in `await file.read()`
  response,             \* what the most recent step returned / did
  ticksBegun,           \* history: process_frame calls since construction / last reset
  ticked,               \* history: a tick has completed since construction / last reset
  cleanRun,             \* history: no update_config since construction / the last
                        \* reset, and no frame was being read at that reset
  trace                 \* history: while cleanRun, the first TraceLen ticks
                        \* completed since construction / last reset

state == <<closed_eye_counter, alert_triggered, frame_count, drowsy_frames>>
settings == <<EAR_THRESHOLD, CONSECUTIVE_FRAMES, WINDOW_SIZE>>
hist == <<ticksBegun, ticked, cleanRun, trace>>
vars == <<closed_eye_counter, alert_triggered, frame_count, drowsy_frames,
          EAR_THRESHOLD, CONSECUTIVE_FRAMES, WINDOW_SIZE, reading, response,
          ticksBegun, ticked, cleanRun, trace>>

\* the longest run of ticks a property below speaks about
Hysteresis == <<"open", "closed", "closed", "closed", "open">>
TraceLen == Len(Hysteresis)

\* ---- inputs ----
\* What a frame turns out to be once it is read:
\*   invalid   imdecode gives None: HTTPException(400) raised inside the try
\*   exception cvtColor, face_mesh.process or the read of
\*             results.face_landmarks raises; caught at app.py:164
\*   noface    results.face_landmarks is empty
\*   earnone   calculate_EAR returns None
\*   ear       calculate_EAR returns the number v
\* The last two come from calculate_EAR on the landmarks of the detected face.

\* ---- utils.py: calculate_EAR ----
\* Landmarks are [x, y] in 1/100 of the frame width / height; pixel points are
\* integers; distances are in pixels and exact on every pair of points the
\* formula pairs in the faces below, which are axis-aligned.
LEFT_EYE == <<33, 160, 158, 133, 153, 144>>
RIGHT_EYE == <<263, 387, 385, 362, 380, 373>>
NormUnit == 100
FrameShape == [h |-> 50, w |-> 50]

RECURSIVE SqrtFrom(_, _)
SqrtFrom(n, r) == IF (r + 1) * (r + 1) > n THEN r ELSE SqrtFrom(n, r + 1)

euclidean_distance(p1, p2) ==
  SqrtFrom((p1.x - p2.x) * (p1.x - p2.x) + (p1.y - p2.y) * (p1.y - p2.y), 0)

\* utils.py:58-59: x = int(lm.x * w), y = int(lm.y * h)
Pixel(lm, shape) ==
  [x |-> (lm.x * shape.w) \div NormUnit, y |-> (lm.y * shape.h) \div NormUnit]

\* utils.py:67-74; [ok |-> FALSE] stands for the ZeroDivisionError that
\* `/ (2.0 * horizontal)` raises when horizontal is 0.0
calculate_eye_ear_zero_guard(eye) ==
  LET vertical1 == euclidean_distance(eye[2], eye[6])
      vertical2 == euclidean_distance(eye[3], eye[5])
      horizontal == euclidean_distance(eye[1], eye[4])
  IN  IF horizontal = 0 THEN [ok |-> TRUE, v |-> 0]
      ELSE [ok |-> TRUE, v |-> ((vertical1 + vertical2) * Unit) \div (2 * horizontal)]

calculate_eye_ear(eye) ==
  LET vertical1 == euclidean_distance(eye[2], eye[6])
      vertical2 == euclidean_distance(eye[3], eye[5])
      horizontal == euclidean_distance(eye[1], eye[4])
  IN  IF horizontal = 0 THEN [ok |-> FALSE, v |-> 0]
      ELSE [ok |-> TRUE, v |-> ((vertical1 + vertical2) * Unit) \div (2 * horizontal)]

\* utils.py:48-84; [ok |-> FALSE] is the None returned by the except branch
calculate_EAR(landmarks, frame_shape) ==
  LET idx == LEFT_EYE \o RIGHT_EYE
      points == [k \in 1..Len(idx) |-> Pixel(landmarks[idx[k]], frame_shape)]
      left_ear == calculate_eye_ear(SubSeq(points, 1, 6))
      right_ear == calculate_eye_ear(SubSeq(points, 7, 12))
  IN  IF ~left_ear.ok \/ ~right_ear.ok THEN [ok |-> FALSE, v |-> 0]
      ELSE [ok |-> TRUE, v |-> (left_ear.v + right_ear.v) \div 2]

\* an eye whose outer corner is at x0, `width` wide, lower lid point 5 at y5
Eye(x0, width, y5) ==
  << [x |-> x0, y |-> 40], [x |-> x0 + 4, y |-> 38], [x |-> x0 + 16, y |-> 38],
     [x |-> x0 + width, y |-> 40], [x |-> x0 + 16, y |-> y5],
     [x |-> x0 + 4, y |-> 42] >>

\* the landmark list of a face with the given left and right eye
Face(l, r) ==
  [i \in {LEFT_EYE[k] : k \in 1..6} \cup {RIGHT_EYE[k] : k \in 1..6} |->
     IF \E k \in 1..6 : LEFT_EYE[k] = i
       THEN l[CHOOSE k \in 1..6 : LEFT_EYE[k] = i]
       ELSE r[CHOOSE k \in 1..6 : RIGHT_EYE[k] = i]]

\* widths: 20 (10 pixels), 1 (corners fall on the same pixel), 0 (same point)
Widths == {20, 1, 0}
Faces == {Face(Eye(20, wl, y5), Eye(60, wr, y5)) : wl \in Widths, wr \in Widths,
                                                   y5 \in {42, 44}}

\* app.py:117-126: what the frame of a detected face turns out to be
FaceFrame(L) ==
  LET ear == calculate_EAR(L, FrameShape)
  IN  IF ear.ok THEN [kind |-> "ear", v |-> ear.v] ELSE [kind |-> "earnone", v |-> 0]

EarValues == {FaceFrame(L).v : L \in {F \in Faces : FaceFrame(F).kind = "ear"}}
Frames == [kind : {"invalid", "exception", "noface"}, v : {0}]
            \cup {FaceFrame(L) : L \in Faces}

\* JSON values of an update_config body
Absent == [t |-> "absent", v |-> 0]
Num(n) == [t |-> "num", v |-> n]
Str == [t |-> "str", v |-> 0]          \* a string that is not a number, "abc"
ThresholdInputs == {Absent, Num(0), Str}
ConsecutiveInputs == {Absent, Num(Unit), Num(3 * Unit + 5000), Str}   \* 1, 3.5, "abc"
WindowInputs == {Absent, Num(5 * Unit), Str}

Init ==
  /\ closed_eye_counter = 0
  /\ alert_triggered = FALSE
  /\ frame_count = 0
  /\ drowsy_frames = 0
  /\ EAR_THRESHOLD = DefaultEarThreshold
  /\ CONSECUTIVE_FRAMES = DefaultConsecutiveFrames
  /\ WINDOW_SIZE = DefaultWindowSize
  /\ reading = 0
  /\ response = [op |-> "init"]
  /\ ticksBegun = 0
  /\ ticked = FALSE
  /\ cleanRun = TRUE
  /\ trace = <<>>

\* ---- process_frame ----
\* app.py:89: state.frame_count += 1, first statement of the try
FrameCountLost == frame_count
NextFrameCount == frame_count + 1

\* app.py:88-92: the increment, then the coroutine suspends in file.read()
TickBegin ==
  /\ reading < MaxReq
  /\ frame_count < MaxFrames
  /\ frame_count' = NextFrameCount
  /\ reading' = reading + 1
  /\ response' = [op |-> "await"]
  /\ ticksBegun' = ticksBegun + 1
  /\ UNCHANGED <<closed_eye_counter, alert_triggered, drowsy_frames, settings,
                 ticked, cleanRun, trace>>

\* app.py:129-144 on the state
EyesClosedOrEqual(ear) == ear <= EAR_THRESHOLD
EyesClosed(ear) == ear < EAR_THRESHOLD
NewCounter(ear) == IF EyesClosed(ear) THEN closed_eye_counter + 1 ELSE 0
LongEnoughStrict(ear) == EyesClosed(ear) /\ NewCounter(ear) > CONSECUTIVE_FRAMES
LongEnough(ear) == EyesClosed(ear) /\ NewCounter(ear) >= CONSECUTIVE_FRAMES
NewDrowsyEveryClosed(ear) == IF EyesClosed(ear) THEN drowsy_frames + 1 ELSE drowsy_frames
NewDrowsy(ear) == IF LongEnough(ear) THEN drowsy_frames + 1 ELSE drowsy_frames
NewAlertEager(ear) == EyesClosed(ear)
NewAlertSticky(ear) ==
  IF EyesClosed(ear)
    THEN (IF LongEnough(ear) THEN TRUE ELSE alert_triggered)
    ELSE alert_triggered
NewAlert(ear) ==
  IF EyesClosed(ear)
    THEN (IF LongEnough(ear) THEN TRUE ELSE alert_triggered)
    ELSE FALSE
AlertPrintedEveryFrame(ear) == LongEnough(ear)
AlertPrinted(ear) == LongEnough(ear) /\ ~alert_triggered

InputClass(f) ==
  IF f.kind = "ear" THEN (IF EyesClosed(f.v) THEN "closed" ELSE "open") ELSE "none"

\* app.py:97-126: an invalid frame, an exception, no face or no EAR leave the
\* handler before step 5; otherwise step 5 runs
CounterResetOnNoMetric(f) == IF f.kind = "ear" THEN NewCounter(f.v) ELSE 0
CounterAfter(f) == IF f.kind = "ear" THEN NewCounter(f.v) ELSE closed_eye_counter
DrowsyAfter(f) == IF f.kind = "ear" THEN NewDrowsy(f.v) ELSE drowsy_frames
AlertAfter(f) == IF f.kind = "ear" THEN NewAlert(f.v) ELSE alert_triggered

\* the value process_frame returns (or the error it raises) for frame f;
\* steps 6-7 (drawing, JPEG encoding of a decoded frame) change neither the
\* state nor the settings and contain no await
FrameResponse(f) ==
  IF f.kind = "ear"
    THEN [op |-> "tick", ear |-> f.v,
          status |-> IF AlertAfter(f) THEN "DROWSY" ELSE "AWAKE",
          alert_triggered |-> AlertAfter(f),
          closed_eyes_frames |-> CounterAfter(f),
          frame_count |-> frame_count,
          drowsy_frames |-> DrowsyAfter(f),
          printed |-> AlertPrinted(f.v)]
  ELSE IF f.kind = "noface"
    THEN [op |-> "tick", status |-> "NO_FACE",
          alert_triggered |-> FALSE, frame_count |-> frame_count,
          printed |-> FALSE]
  ELSE IF f.kind = "earnone"
    THEN [op |-> "tick", status |-> "ERROR",
          alert_triggered |-> FALSE, frame_count |-> frame_count,
          printed |-> FALSE]
  ELSE [op |-> "tick", status |-> "HTTP_500",
        alert_triggered |-> FALSE, printed |-> FALSE]

\* app.py:92-166: everything after the await, one uninterrupted run
TickFinish(f) ==
  /\ reading > 0
  /\ reading' = reading - 1
  /\ closed_eye_counter' = CounterAfter(f)
  /\ drowsy_frames' = DrowsyAfter(f)
  /\ alert_triggered' = AlertAfter(f)
  /\ response' = FrameResponse(f)
  /\ ticked' = TRUE
  /\ trace' = IF cleanRun /\ Len(trace) < TraceLen
                THEN Append(trace, [in |-> InputClass(f),
                                    status |-> IF f.kind = "ear" THEN response'.status
                                                                 ELSE "NONE",
                                    alert |-> response'.alert_triggered,
                                    closed |-> closed_eye_counter',
                                    drowsy |-> drowsy_frames'])
                ELSE trace
  /\ UNCHANGED <<frame_count, settings, ticksBegun, cleanRun>>

\* ---- reset_stats ----
\* app.py:226-231
reset_stats_keeps_alert ==
  /\ frame_count' = 0
  /\ drowsy_frames' = 0
  /\ closed_eye_counter' = 0
  /\ alert_triggered' = alert_triggered
  /\ response' = [op |-> "reset", status |-> "reset"]
  /\ ticksBegun' = 0
  /\ ticked' = FALSE
  /\ cleanRun' = (reading = 0)
  /\ trace' = <<>>
  /\ UNCHANGED <<settings, reading>>

reset_stats_keeps_counter ==
  /\ frame_count' = 0
  /\ drowsy_frames' = 0
  /\ closed_eye_counter' = closed_eye_counter
  /\ alert_triggered' = FALSE
  /\ response' = [op |-> "reset", status |-> "reset"]
  /\ ticksBegun' = 0
  /\ ticked' = FALSE
  /\ cleanRun' = (reading = 0)
  /\ trace' = <<>>
  /\ UNCHANGED <<settings, reading>>

reset_stats ==
  /\ frame_count' = 0
  /\ drowsy_frames' = 0
  /\ closed_eye_counter' = 0
  /\ alert_triggered' = FALSE
  /\ response' = [op |-> "reset", status |-> "reset"]
  /\ ticksBegun' = 0
  /\ ticked' = FALSE
  /\ cleanRun' = (reading = 0)
  /\ trace' = <<>>
  /\ UNCHANGED <<settings, reading>>

\* ---- get_stats ----
\* round((drowsy_frames / max(frame_count, 1)) * 100, 2) in 1/100 percent
Max(a, b) == IF a >= b THEN a ELSE b
RoundDivFloor(n, d) == n \div d
RoundDiv(n, d) == (2 * n + d) \div (2 * d)
drowsy_percentage ==
  IF frame_count > 0
    THEN RoundDiv(drowsy_frames * 100 * 100, Max(frame_count, 1))
    ELSE 0

get_stats ==
  /\ response' = [op |-> "stats", frames_processed |-> frame_count,
                  drowsy_frames |-> drowsy_frames,
                  drowsy_percentage |-> drowsy_percentage]
  /\ UNCHANGED <<state, settings, reading, hist>>

\* ---- update_config ----
\* float(x) / int(x) of a JSON value: a non-numeric string raises ValueError
Converts(x) == x.t = "num"
ToFloat(x) == x.v
\* int() truncates toward zero
ToInt(x) == IF x.v >= 0 THEN x.v \div Unit ELSE -((-x.v) \div Unit)

\* the three `if key in config` blocks run in order; the first conversion
\* that raises ends the handler with the earlier assignments already made
ThresholdFails(c) == c.ear_threshold.t = "str"
ConfigFails(c) == ThresholdFails(c) \/ c.consecutive_frames.t = "str" \/ c.window_size.t = "str"

\* the window_size block assigning CONSECUTIVE_FRAMES
update_config_window_to_frames(c) ==
  /\ EAR_THRESHOLD' =
       IF Converts(c.ear_threshold) THEN ToFloat(c.ear_threshold) ELSE EAR_THRESHOLD
  /\ CONSECUTIVE_FRAMES' =
       IF ~ThresholdFails(c) /\ c.consecutive_frames.t # "str" /\ Converts(c.window_size)
         THEN ToInt(c.window_size)
         ELSE IF ~ThresholdFails(c) /\ Converts(c.consecutive_frames)
           THEN ToInt(c.consecutive_frames) ELSE CONSECUTIVE_FRAMES
  /\ WINDOW_SIZE' = WINDOW_SIZE
  /\ response' =
       IF ConfigFails(c)
         THEN [op |-> "config", status |-> "HTTP_500"]
         ELSE [op |-> "config", status |-> "updated",
               new_config |-> [ear_threshold |-> EAR_THRESHOLD',
                               consecutive_frames |-> CONSECUTIVE_FRAMES',
                               window_size |-> WINDOW_SIZE']]
  /\ cleanRun' = FALSE
  /\ trace' = <<>>
  /\ UNCHANGED <<state, reading, ticksBegun, ticked>>

\* the update re-evaluating the latch against the new CONSECUTIVE_FRAMES
update_config_retroactive(c) ==
  /\ EAR_THRESHOLD' =
       IF Converts(c.ear_threshold) THEN ToFloat(c.ear_threshold) ELSE EAR_THRESHOLD
  /\ CONSECUTIVE_FRAMES' =
       IF ~ThresholdFails(c) /\ Converts(c.consecutive_frames)
         THEN ToInt(c.consecutive_frames) ELSE CONSECUTIVE_FRAMES
  /\ WINDOW_SIZE' =
       IF ~ThresholdFails(c) /\ c.consecutive_frames.t # "str" /\ Converts(c.window_size)
         THEN ToInt(c.window_size) ELSE WINDOW_SIZE
  /\ response' =
       IF ConfigFails(c)
         THEN [op |-> "config", status |-> "HTTP_500"]
         ELSE [op |-> "config", status |-> "updated",
               new_config |-> [ear_threshold |-> EAR_THRESHOLD',
                               consecutive_frames |-> CONSECUTIVE_FRAMES',
                               window_size |-> WINDOW_SIZE']]
  /\ alert_triggered' =
       (closed_eye_counter > 0 /\ closed_eye_counter >= CONSECUTIVE_FRAMES')
  /\ cleanRun' = FALSE
  /\ trace' = <<>>
  /\ UNCHANGED <<closed_eye_counter, frame_count, drowsy_frames, reading,
                 ticksBegun, ticked>>

update_config(c) ==
  /\ EAR_THRESHOLD' =
       IF Converts(c.ear_threshold) THEN ToFloat(c.ear_threshold) ELSE EAR_THRESHOLD
  /\ CONSECUTIVE_FRAMES' =
       IF ~ThresholdFails(c) /\ Converts(c.consecutive_frames)
         THEN ToInt(c.consecutive_frames) ELSE CONSECUTIVE_FRAMES
  /\ WINDOW_SIZE' =
       IF ~ThresholdFails(c) /\ c.consecutive_frames.t # "str" /\ Converts(c.window_size)
         THEN ToInt(c.window_size) ELSE WINDOW_SIZE
  /\ response' =
       IF ConfigFails(c)
         THEN [op |-> "config", status |-> "HTTP_500"]
         ELSE [op |-> "config", status |-> "updated",
               new_config |-> [ear_threshold |-> EAR_THRESHOLD',
                               consecutive_frames |-> CONSECUTIVE_FRAMES',
                               window_size |-> WINDOW_SIZE']]
  /\ cleanRun' = FALSE
  /\ trace' = <<>>
  /\ UNCHANGED <<state, reading, ticksBegun, ticked>>

Configs == [ear_threshold : ThresholdInputs, consecutive_frames : ConsecutiveInputs,
            window_size : WindowInputs]

Next ==
  \/ TickBegin
  \/ \E f \in Frames : TickFinish(f)
  \/ reset_stats
  \/ get_stats
  \/ \E c \in Configs : update_config(c)

Spec == Init /\ [][Next]_vars

\* ======================================================================
\* Properties
\* ======================================================================
\* the step just taken completed a frame tick / a tick with a metric
TickDone(resp) == resp.op = "tick"
Readable(resp) == resp.op = "tick" /\ resp.status \in {"AWAKE", "DROWSY"}

\* the inputs, statuses and counters of the first n recorded ticks
TraceIn(n) == [i \in 1..n |-> trace[i].in]
TraceStatus(n) == [i \in 1..n |-> trace[i].status]
TraceClosed(n) == [i \in 1..n |-> trace[i].closed]

\* length of the run of sub-threshold readable ticks that ends at trace[i];
\* ticks without a metric are skipped
RECURSIVE RunAt(_)
RunAt(i) ==
  IF i = 0 THEN 0
  ELSE IF trace[i].in = "none" THEN RunAt(i - 1)
  ELSE IF trace[i].in = "closed" THEN RunAt(i - 1) + 1
  ELSE 0

\* C1: a readable tick with metric < threshold adds exactly 1 to
\* closed_eye_counter; if the new counter >= CONSECUTIVE_FRAMES it adds exactly
\* 1 to drowsy_frames and the alert is latched, otherwise drowsy_frames and
\* alert_triggered are unchanged.
C1_ClosedTick ==
  [][ (Readable(response') /\ response'.ear < EAR_THRESHOLD)
        => /\ closed_eye_counter' = closed_eye_counter + 1
           /\ IF closed_eye_counter' >= CONSECUTIVE_FRAMES
                THEN drowsy_frames' = drowsy_frames + 1 /\ alert_triggered' = TRUE
                ELSE drowsy_frames' = drowsy_frames
                     /\ alert_triggered' = alert_triggered ]_vars

\* the third sub-threshold tick of a run with CONSECUTIVE_FRAMES = 3 has just
\* latched the alert, after two ticks that only advanced the run
C1_Witness ==
  /\ Readable(response) /\ response.ear < EAR_THRESHOLD
  /\ CONSECUTIVE_FRAMES = 3
  /\ closed_eye_counter = 3 /\ drowsy_frames = 1 /\ alert_triggered
  /\ Len(trace) = 3 /\ TraceStatus(3) = <<"AWAKE", "AWAKE", "DROWSY">>

\* C2: a readable tick with metric >= threshold (equality included) sets
\* closed_eye_counter to 0 and alert_triggered to FALSE whatever they were,
\* returns AWAKE and leaves drowsy_frames unchanged.
C2_OpenTick ==
  [][ (Readable(response') /\ response'.ear >= EAR_THRESHOLD)
        => /\ closed_eye_counter' = 0
           /\ alert_triggered' = FALSE
           /\ response'.status = "AWAKE"
           /\ drowsy_frames' = drowsy_frames ]_vars

\* a tick with metric exactly equal to the threshold has just cancelled a
\* latched alert and a non-empty run
C2_Witness ==
  /\ Readable(response) /\ response.ear = EAR_THRESHOLD
  /\ response.status = "AWAKE" /\ ~alert_triggered /\ closed_eye_counter = 0
  /\ Len(trace) \in 2..(TraceLen - 1)
  /\ trace[Len(trace) - 1].status = "DROWSY"
  /\ trace[Len(trace) - 1].closed > 0
  /\ trace[Len(trace)].in = "open"

\* C3: a tick without a metric (no face, EAR None, failed frame) leaves
\* closed_eye_counter, alert_triggered and drowsy_frames as they were; with
\* CONSECUTIVE_FRAMES = 3 the inputs [below, below, None, below] from a reset
\* state give counters 1, 2, 2, 3 and the last tick is DROWSY.
\* (the run [below, below, None, below] as recorded in trace)
C3_Scenario ==
  (CONSECUTIVE_FRAMES = 3 /\ Len(trace) >= 4
     /\ TraceIn(4) = <<"closed", "closed", "none", "closed">>)
    => /\ TraceClosed(4) = <<1, 2, 2, 3>>
       /\ trace[4].status = "DROWSY"

\* C3: no-metric ticks change none of closed_eye_counter, alert_triggered,
\* drowsy_frames, and the recorded run above gives 1, 2, 2, 3 and DROWSY.
C3_NoMetricTick ==
  /\ [][ (TickDone(response') /\ ~Readable(response'))
           => UNCHANGED <<closed_eye_counter, alert_triggered, drowsy_frames>> ]_vars
  /\ []C3_Scenario

C3_Witness ==
  /\ CONSECUTIVE_FRAMES = 3 /\ Len(trace) = 4
  /\ TraceIn(4) = <<"closed", "closed", "none", "closed">>
  /\ trace[3].status = "NONE"
  /\ closed_eye_counter = 3 /\ alert_triggered

\* C4: frame_count equals the number of process_frame calls made since
\* construction or the last reset, whatever those frames turned out to be.
C4_FrameCountIsN == frame_count = ticksBegun

\* four ticks, all completed, among them a failed frame and a frame without
\* a metric
C4_Witness ==
  /\ ticksBegun = 4 /\ frame_count = 4 /\ reading = 0
  /\ TickDone(response) /\ response.status = "HTTP_500"
  /\ Len(trace) = 4
  /\ \E i \in 1..3 : trace[i].in = "none"
  /\ \E i \in 1..3 : trace[i].in = "closed"

\* C5: with the configuration unchanged since the reset, and every tick made
\* after the reset, a readable tick is
\* DROWSY exactly when it is the k-th consecutive sub-threshold readable tick
\* with k >= CONSECUTIVE_FRAMES; alert_triggered is reported only on DROWSY
\* ticks; for N = 3 and [open, closed, closed, closed, open] the statuses are
\* [AWAKE, AWAKE, AWAKE, DROWSY, AWAKE] and drowsy_frames ends at 1.
C5_Hysteresis ==
  /\ \A i \in 1..Len(trace) :
       /\ trace[i].in # "none"
            => (trace[i].status = "DROWSY"
                  <=> (trace[i].in = "closed" /\ RunAt(i) >= CONSECUTIVE_FRAMES))
       /\ trace[i].alert => trace[i].status = "DROWSY"
  /\ (TickDone(response) /\ response.alert_triggered) => response.status = "DROWSY"
  /\ (CONSECUTIVE_FRAMES = 3 /\ Len(trace) >= 5
        /\ TraceIn(5) = Hysteresis)
       => /\ TraceStatus(5) = <<"AWAKE", "AWAKE", "AWAKE", "DROWSY", "AWAKE">>
          /\ trace[5].drowsy = 1

C5_Witness ==
  /\ CONSECUTIVE_FRAMES = 3 /\ Len(trace) = 5
  /\ TraceIn(5) = Hysteresis
  /\ drowsy_frames = 1 /\ ~alert_triggered

\* C6: every frame tick is one atomic unit: while a process_frame call is
\* between its increment of frame_count and its update of the run, the latch
\* and drowsy_frames, no other request changes DetectionState or the settings.
\* Before a step `reading` calls are suspended; one of them stays suspended
\* across the step unless it is the only one and the step completes it.
C6_TickIsAtomic ==
  [][ ((reading > 0 /\ ~TickDone(response')) \/ reading > 1)
        => UNCHANGED <<state, settings>> ]_vars

\* C7: the alert line is printed on a step iff alert_triggered goes from
\* FALSE to TRUE on it; and the latch is only cleared by a reset or by a
\* readable tick with metric >= threshold, so one of those lies between any
\* two printings.
AlertFired(resp) == resp.op = "tick" /\ resp.printed

C7_AlertEdgeTriggered ==
  [][ /\ AlertFired(response') <=> (~alert_triggered /\ alert_triggered')
      /\ (alert_triggered /\ ~alert_triggered')
           => \/ response'.op = "reset"
              \/ (Readable(response') /\ response'.ear >= EAR_THRESHOLD) ]_vars

\* the alert has just fired for the second time since the reset, a DROWSY
\* tick that did not fire and an open-eye tick having come in between
C7_Witness ==
  /\ AlertFired(response)
  /\ Len(trace) \in 4..(TraceLen - 1)
  /\ \E i \in 1..(Len(trace) - 3) :
       /\ trace[i].status = "DROWSY"
       /\ trace[i + 1].status = "DROWSY"
       /\ \E j \in (i + 2)..(Len(trace) - 1) : trace[j].in = "open"
  /\ trace[Len(trace)].status = "DROWSY"

\* C8: reset_stats, from any state, zeroes closed_eye_counter, frame_count
\* and drowsy_frames, clears alert_triggered and leaves the settings alone.
C8_ResetEffect ==
  [][ response'.op = "reset"
        => /\ closed_eye_counter' = 0
           /\ alert_triggered' = FALSE
           /\ frame_count' = 0
           /\ drowsy_frames' = 0
           /\ UNCHANGED settings ]_vars

\* a reset has just run with a frame still being read (so frame_count was
\* positive before it) and with settings that are not the defaults
C8_Witness ==
  /\ response.op = "reset"
  /\ reading > 0
  /\ CONSECUTIVE_FRAMES = 3 /\ EAR_THRESHOLD = 0 /\ WINDOW_SIZE = 5
  /\ frame_count = 0 /\ drowsy_frames = 0 /\ closed_eye_counter = 0
  /\ ~alert_triggered

\* C9: get_stats after a reset (before any tick begins or completes) returns
\* 0, 0, 0; a second reset changes nothing; and the first tick to complete
\* after a reset, if its metric is below the threshold, reports
\* closed_eyes_frames = 1, whatever was in flight at the reset.
C9_ResetIdempotent ==
  [][ /\ (response'.op = "stats" /\ ~ticked /\ ticksBegun = 0)
           => response' = [op |-> "stats", frames_processed |-> 0,
                           drowsy_frames |-> 0, drowsy_percentage |-> 0]
      /\ (response.op = "reset" /\ response'.op = "reset")
           => UNCHANGED <<state, settings>>
      /\ (~ticked /\ Readable(response') /\ response'.ear < EAR_THRESHOLD)
           => response'.closed_eyes_frames = 1 /\ closed_eye_counter' = 1 ]_vars

\* a frame that was being read when the reset ran has completed as the first
\* tick after it, below the threshold
C9_Witness ==
  /\ Readable(response) /\ response.ear < EAR_THRESHOLD
  /\ response.closed_eyes_frames = 1
  /\ frame_count = 0 /\ ticksBegun = 0 /\ reading = 1
  /\ ticked /\ closed_eye_counter = 1

\* C10: an update with consecutive_frames <= 0 or ear_threshold <= 0 is
\* rejected and leaves the three settings as they were, so that
\* CONSECUTIVE_FRAMES >= 1 and EAR_THRESHOLD > 0 always hold.
OutOfRange(c) ==
  \/ (c.consecutive_frames.t = "num" /\ c.consecutive_frames.v <= 0)
  \/ (c.ear_threshold.t = "num" /\ c.ear_threshold.v <= 0)

C10_OutOfRangeRejected ==
  /\ [][ \A c \in Configs :
           (update_config(c) /\ OutOfRange(c))
             => (UNCHANGED settings /\ response'.status # "updated") ]_vars
  /\ [](CONSECUTIVE_FRAMES >= 1 /\ EAR_THRESHOLD > 0)
\* C11: an update that fails (a supplied field is out of range or does not
\* convert to a number) has changed none of the three settings, even when an
\* earlier field of the same request was valid.  Stated for the requests
\* whose numbers are all in range, where the only invalid field is one that
\* does not convert.
C11_UpdateAllOrNothing ==
  [][ \A c \in Configs :
        (update_config(c) /\ ~OutOfRange(c) /\ response'.status # "updated")
          => UNCHANGED settings ]_vars
\* C12: a successful update overwrites exactly the fields present in the
\* request (with the number given, truncated to an integer for
\* consecutive_frames and window_size) and leaves absent fields unchanged; an
\* update of ear_threshold alone leaves the other two alone; and the
\* configuration returned is the stored one.
Overwritten(x, old, new) ==
  IF x.t = "absent" THEN new = old
  ELSE new * Unit <= x.v /\ x.v < (new + 1) * Unit

C12_UpdateOverwritesPresent ==
  [][ (response'.op = "config" /\ response'.status = "updated") =>
      \A c \in Configs :
        update_config(c)
          => /\ IF c.ear_threshold.t = "absent"
                  THEN EAR_THRESHOLD' = EAR_THRESHOLD
                  ELSE EAR_THRESHOLD' = c.ear_threshold.v
             /\ Overwritten(c.consecutive_frames, CONSECUTIVE_FRAMES, CONSECUTIVE_FRAMES')
             /\ Overwritten(c.window_size, WINDOW_SIZE, WINDOW_SIZE')
             /\ response'.new_config =
                  [ear_threshold |-> EAR_THRESHOLD',
                   consecutive_frames |-> CONSECUTIVE_FRAMES',
                   window_size |-> WINDOW_SIZE'] ]_vars

\* an update has just succeeded; the threshold is a value only an update can
\* give, the other two settings still have the values of construction, which
\* no request of the model carries
C12_Witness ==
  /\ response.op = "config" /\ response.status = "updated"
  /\ EAR_THRESHOLD = 0 /\ response.new_config.ear_threshold = 0
  /\ CONSECUTIVE_FRAMES = DefaultConsecutiveFrames
  /\ WINDOW_SIZE = DefaultWindowSize

\* C13: update_config leaves closed_eye_counter, alert_triggered, frame_count
\* and drowsy_frames unchanged; the alert is only ever latched by a readable
\* tick, below the threshold in force at that tick and with a run >= the
\* CONSECUTIVE_FRAMES in force at that tick, so lowering CONSECUTIVE_FRAMES to
\* at most the current run latches nothing until a further such tick.
C13_UpdateNotRetroactive ==
  [][ /\ response'.op = "config" => UNCHANGED state
      /\ (~alert_triggered /\ alert_triggered')
           => /\ Readable(response')
              /\ response'.ear < EAR_THRESHOLD
              /\ closed_eye_counter' >= CONSECUTIVE_FRAMES
              /\ UNCHANGED settings ]_vars

\* an update has just lowered CONSECUTIVE_FRAMES to a valid value that the
\* current run already reaches, and the alert is not latched
C13_Witness ==
  /\ response.op = "config" /\ response.status = "updated"
  /\ response.new_config.consecutive_frames = CONSECUTIVE_FRAMES
  /\ CONSECUTIVE_FRAMES >= 1
  /\ closed_eye_counter >= CONSECUTIVE_FRAMES
  /\ ~alert_triggered /\ drowsy_frames = 0
\* C14: get_stats returns the current frame_count and drowsy_frames and, as
\* drowsy_percentage, 100 * drowsy_frames / max(frame_count, 1) rounded to two
\* decimals (the multiple of 0.01 nearest to the quotient), which is exactly 0
\* when frame_count = 0; it changes neither the state nor the settings.
C14_StatsReport ==
  [][ response'.op = "stats"
        => /\ response'.frames_processed = frame_count
           /\ response'.drowsy_frames = drowsy_frames
           /\ IF frame_count = 0
                THEN response'.drowsy_percentage = 0
                ELSE LET p == response'.drowsy_percentage
                         exact == drowsy_frames * 100 * 100
                     IN  /\ 2 * (p * frame_count - exact) <= frame_count
                         /\ 2 * (exact - p * frame_count) <= frame_count
           /\ UNCHANGED <<state, settings>> ]_vars

\* two drowsy frames out of three: 66.666... is reported as 66.67
C14_Witness ==
  /\ response.op = "stats"
  /\ frame_count = 3 /\ drowsy_frames = 2
  /\ response.drowsy_percentage = 6667
\* C15: for every face in which the pixel corner points of either eye
\* coincide, calculate_EAR gives None (no number), and the tick for that frame
\* answers ERROR with closed_eye_counter and alert_triggered unchanged.
Degenerate(L) ==
  \/ Pixel(L[LEFT_EYE[1]], FrameShape) = Pixel(L[LEFT_EYE[4]], FrameShape)
  \/ Pixel(L[RIGHT_EYE[1]], FrameShape) = Pixel(L[RIGHT_EYE[4]], FrameShape)

DegenerateFaces == {L \in Faces : Degenerate(L)}
DegenerateGivesNone == \A L \in DegenerateFaces : ~calculate_EAR(L, FrameShape).ok
DegenerateFrames == {FaceFrame(L) : L \in DegenerateFaces}

C15_DegenerateEyeIsError ==
  [][ /\ DegenerateGivesNone
      /\ \A f \in DegenerateFrames :
           TickFinish(f)
             => /\ response'.status = "ERROR"
                /\ UNCHANGED <<closed_eye_counter, alert_triggered>> ]_vars

\* a frame without an EAR has just been answered ERROR while the alert was
\* latched and the run not empty; in the model only a degenerate face gives
\* that answer
C15_Witness ==
  /\ TickDone(response) /\ response.status = "ERROR"
  /\ \E L \in DegenerateFaces : L[LEFT_EYE[1]] # L[LEFT_EYE[4]]
  /\ \A L \in Faces \ DegenerateFaces : FaceFrame(L).kind = "ear"
  /\ closed_eye_counter > 0 /\ alert_triggered
\* C17: in every reachable state 0 <= drowsy_frames <= frame_count.
C17_DrowsyWithinTotal == 0 <= drowsy_frames /\ drowsy_frames <= frame_count

\* C18 as claimed: in every reachable state, a latched alert implies
\* closed_eye_counter >= the current CONSECUTIVE_FRAMES.
C18_LatchImpliesRun == alert_triggered => closed_eye_counter >= CONSECUTIVE_FRAMES

\* C18 as amended: the implication holds at the tick that latches the alert
\* and is preserved by every step that is not a configuration update, and a
\* tick is DROWSY only with the alert latched.
C18_LatchedAtRun ==
  [][ /\ (~alert_triggered /\ alert_triggered')
           => closed_eye_counter' >= CONSECUTIVE_FRAMES'
      /\ (response'.op # "config" /\ C18_LatchImpliesRun)
           => (alert_triggered' => closed_eye_counter' >= CONSECUTIVE_FRAMES')
      /\ (TickDone(response') /\ response'.status = "DROWSY")
           => alert_triggered' ]_vars

\* a DROWSY tick with the run at CONSECUTIVE_FRAMES, the settings having been
\* updated since the last reset
C18_Witness ==
  /\ Readable(response) /\ response.status = "DROWSY"
  /\ alert_triggered /\ ~cleanRun
  /\ CONSECUTIVE_FRAMES >= 1
  /\ closed_eye_counter = CONSECUTIVE_FRAMES

\* C19 as claimed: a tick that returns DROWSY adds exactly 1 to
\* drowsy_frames, any other tick leaves it unchanged.
C19_DrowsyCountsDrowsyTicks ==
  [][ TickDone(response')
        => IF response'.status = "DROWSY"
             THEN drowsy_frames' = drowsy_frames + 1
             ELSE drowsy_frames' = drowsy_frames ]_vars

\* C19 as amended: a tick that returns AWAKE, NO_FACE or an error leaves
\* drowsy_frames unchanged; a tick that returns DROWSY adds exactly 1 when
\* its run has reached the current CONSECUTIVE_FRAMES and nothing otherwise.
C19_DrowsyCountsConfirmedTicks ==
  [][ TickDone(response')
        => IF response'.status = "DROWSY"
                /\ closed_eye_counter' >= CONSECUTIVE_FRAMES
             THEN drowsy_frames' = drowsy_frames + 1
             ELSE drowsy_frames' = drowsy_frames ]_vars

\* a DROWSY tick that was not counted: latched with run 1, then
\* CONSECUTIVE_FRAMES raised, then a second sub-threshold tick
C19_Witness ==
  /\ Readable(response) /\ response.status = "DROWSY"
  /\ response.ear < EAR_THRESHOLD
  /\ CONSECUTIVE_FRAMES >= 1
  /\ closed_eye_counter = 2 /\ closed_eye_counter < CONSECUTIVE_FRAMES
  /\ drowsy_frames = 1 /\ frame_count = 2
====
